---- MODULE Spec2Model ----
(***************************************************************************)
(* Model of mqtt.py: a simulated telemetry device.  main() issues a JWT,   *)
(* configures a paho MQTT client, connects, starts the client's network    *)
(* loop thread, seeds the simulation from the device id and then runs the  *)
(* publish loop.  The main thread is modelled by pc; the paho network loop *)
(* thread (which dispatches on_connect / on_disconnect / on_publish) is    *)
(* modelled by NetworkLoop; the wall clock by Elapse.                      *)
(*                                                                         *)
(* Time is in seconds (the resolution of the JWT claims once encoded and   *)
(* of the payload timestamp).  Quantities are Python floats; they are      *)
(* represented in thousandths (Scale).                                     *)
(***************************************************************************)
EXTENDS Integers, Sequences, FiniteSets, TLC

\* ---------------------------------------------------------------- bounds
MaxMessages == 2        \* largest --num_messages explored
MaxClock    == 3700     \* the clock is not advanced beyond this
RandRes     == 4        \* resolution of one abstract random.random() draw
Scale       == 1000     \* model integers per unit of a float quantity

\* ------------------------------------------------------ program constants
ValidityMinutes == 60   \* datetime.timedelta(minutes=60)
Validity == ValidityMinutes * 60        \* the same, in seconds
Qos == 1                \* client.publish(..., qos=1)

DeviceIds    == {"dev-1", "dev-2"}
ProjectIds   == {"proj-a", "proj-b"}
MessageTypes == {"event", "state"}
NumMessages  == (0 - 1) .. MaxMessages
ClockSteps   == {Validity}      \* time that may pass between two statements
ReadGaps     == {0, 1}          \* time between the two utcnow() reads
KeyOutcomes  == {"ok", "unreadable", "badkey"}
ConnackCodes == {0, 5}          \* 0 accepted, 5 not authorised

Quantities == <<"Temp In", "Temp Out", "Pressure", "Humidity In",
                "Humidity Out", "UV Index", "Solar Irradiance",
                "Soil Moisture", "Carbon Dioxide ppb", "Methan ppb",
                "Nitrous Oxide ppb", "CFC ppb">>
QuantitySet == {Quantities[k] : k \in 1..Len(Quantities)}

VARIABLES
    args,       \* parsed command line: project_id, device_id, num_messages, message_type
    pc,         \* position of the main thread in main()
    clock,      \* wall clock, seconds
    token,      \* claim set built by create_jwt
    client,     \* the paho client object as main() configures and uses it
    link,       \* broker side of the connection: none, sent, accepted, refused, lost
    status,     \* what the callbacks have printed last (observability only)
    rng,        \* module-level random generator: seed and number of draws so far
    env,        \* the twelve simulated quantities
    trend,      \* temperature_trend
    i,          \* loop variable of the publish loop
    topic,      \* mqtt_topic
    published,  \* calls of client.publish, in order
    unacked,    \* message ids published and not yet acknowledged
    result      \* how main() ended: running, Finished, or the exception raised

vars == <<args, pc, clock, token, client, link, status, rng, env, trend, i,
          topic, published, unacked, result>>

mainVars == <<args, pc, token, client, rng, env, trend, i, topic, published, result>>

\* ------------------------------------------------------------- create_jwt
NoToken == [iat |-> 0 - 1, exp |-> 0 - 1, aud |-> "none"]

\* now1 and now2 are the two datetime.datetime.utcnow() reads
create_jwt(project_id, now1, now2) ==
    [iat |-> now1, exp |-> now2 + Validity, aud |-> project_id]

\* ------------------------------------------------------- random generator
\* random.seed(device_id): the stream is a fixed function of the seed.
SeedOf(device_id) == IF device_id = "dev-1" THEN 1 ELSE 2

\* n-th raw output of the generator seeded with s (stands for the Mersenne
\* Twister stream, of which only determinism in (s, n) is used)
Mix(s, n) == (s * 7 + n * 5 + (n * n) * 3 + (n \div 3)) % 60

\* random.random() as a fraction k / RandRes, k in 0 .. RandRes-1
Uniform(r) == Mix(r.seed, r.n) % RandRes

\* random.random() > 0.5
AboveHalf(r) == 2 * Uniform(r) > RandRes

\* random.normalvariate(mu, sigma), mu and sigma in thousandths
\* (up to three sigma either side, so a temperature step can be negative)
normalvariate(r, mu, sigma) == mu + sigma * ((Mix(r.seed, r.n) % 7) - 3)

Drawn(r, k) == [r EXCEPT !.n = r.n + k]

\* ---------------------------------------------------- environmental state
Base == [q \in QuantitySet |->
    CASE q = "Temp In"            -> 45
      [] q = "Temp Out"           -> 35
      [] q = "Pressure"           -> 1000
      [] q = "Humidity In"        -> 25
      [] q = "Humidity Out"       -> 15
      [] q = "UV Index"           -> 5
      [] q = "Solar Irradiance"   -> 6
      [] q = "Soil Moisture"      -> 50
      [] q = "Carbon Dioxide ppb" -> 430
      [] q = "Methan ppb"         -> 1900
      [] q = "Nitrous Oxide ppb"  -> 330
      [] q = "CFC ppb"            -> 900]

Range == [q \in QuantitySet |->
    CASE q = "Temp In"            -> 20
      [] q = "Temp Out"           -> 10
      [] q = "Pressure"           -> 25
      [] q = "Humidity In"        -> 30
      [] q = "Humidity Out"       -> 30
      [] q = "UV Index"           -> 10
      [] q = "Solar Irradiance"   -> 10
      [] q = "Soil Moisture"      -> 10
      [] q = "Carbon Dioxide ppb" -> 50
      [] q = "Methan ppb"         -> 200
      [] q = "Nitrous Oxide ppb"  -> 100
      [] q = "CFC ppb"            -> 300]

NoEnv == [q \in QuantitySet |-> 0]

\* lines 163-174: the k-th quantity takes the k-th draw after seeding
InitialEnv(r) ==
    [q \in QuantitySet |->
        LET k == CHOOSE j \in 1..Len(Quantities) : Quantities[j] = q
        IN  Base[q] * Scale
              + (Uniform(Drawn(r, k - 1)) * Range[q] * Scale) \div RandRes]

\* lines 178-181: the draw after the twelve initial ones
InitialTrend(r) == IF AboveHalf(Drawn(r, Len(Quantities))) THEN 1 ELSE 0 - 1
\* Advance with the outdoor temperature stepping against the trend
Advance_TempOutAgainstTrend(s, t, r) ==
    [q \in QuantitySet |->
        LET k == CHOOSE j \in 1..Len(Quantities) : Quantities[j] = q
        IN  IF k = 1
            THEN s[q] + t * normalvariate(Drawn(r, k - 1), 10, 5)
            ELSE IF k = 2
            THEN s[q] - t * normalvariate(Drawn(r, k - 1), 10, 5)
            ELSE LET coin == IF AboveHalf(Drawn(r, 2 + 2 * (k - 3))) THEN 1 ELSE 0 - 1
                     step == normalvariate(Drawn(r, 3 + 2 * (k - 3)), 100, 10)
                 IN  IF q = "Humidity Out" THEN s[q] - coin * step
                                           ELSE s[q] + coin * step]

\* lines 186-197.  The two temperatures take one draw each, every other
\* quantity a coin draw and then a normal draw.
Advance(s, t, r) ==
    [q \in QuantitySet |->
        LET k == CHOOSE j \in 1..Len(Quantities) : Quantities[j] = q
        IN  IF k <= 2
            THEN s[q] + t * normalvariate(Drawn(r, k - 1), 10, 5)
            ELSE LET coin == IF AboveHalf(Drawn(r, 2 + 2 * (k - 3))) THEN 1 ELSE 0 - 1
                     step == normalvariate(Drawn(r, 3 + 2 * (k - 3)), 100, 10)
                 IN  IF q = "Humidity Out" THEN s[q] - coin * step
                                           ELSE s[q] + coin * step]

DrawsPerAdvance == 2 + 2 * (Len(Quantities) - 2)

\* ------------------------------------------------------- composite index
Denominator(s) == s["Pressure"] + (s["Humidity In"] - s["Humidity Out"])

\* Python type of every simulated quantity: int + random.random() * int
QuantityType == "float"

\* Python type of a sum, difference, product or quotient of two numbers
ArithType(lt, rt) == IF lt = "float" \/ rt = "float" THEN "float" ELSE "int"

\* Python's binary ^ is defined for two ints; anything else raises TypeError
XorType(lt, rt) == IF lt = "int" /\ rt = "int" THEN "int" ELSE "TypeError"

\* lines 199-200.  ^ binds looser than + - * /, so the numerator is
\*   (simulated_temp - simulated_temp_out)
\*     ^ (3/500 + sqrt(sqrt(...)) - 10 * (sim_smoist + sim_irr) + sim_uv)
\* and it is evaluated before the division by the denominator.
GScore(s) ==
    LET left  == ArithType(QuantityType, QuantityType)
        right == ArithType(ArithType("float", "float"),
                           ArithType(QuantityType, QuantityType))
    IN  IF XorType(left, right) = "TypeError"
        THEN [error |-> "TypeError", value |-> 0]
        ELSE IF Denominator(s) = 0
        THEN [error |-> "ZeroDivisionError", value |-> 0]
        ELSE [error |-> "none",
              value |-> ((s["Temp In"] - s["Temp Out"]) * Scale) \div Denominator(s)]

\* lines 204-217
Payload(now, device_id, s, g) ==
    [timestamp |-> now, device |-> device_id, sensors |-> s, g_index |-> g]

\* line 227
SleepSeconds(message_type) == IF message_type = "event" THEN 1 ELSE 5

\* lines 156-158
MqttTopic(device_id, message_type) ==
    <<"devices", device_id, IF message_type = "event" THEN "events" ELSE "state">>

\* ------------------------------------------------------------- callbacks
NoStatus == [connect |-> 0 - 1, disconnect |-> 0 - 1, acked |-> 0]

on_connect(st, rc)    == [st EXCEPT !.connect = rc]
on_disconnect(st, rc) == [st EXCEPT !.disconnect = rc]
on_publish(st, mid)   == [st EXCEPT !.acked = mid]

\* ------------------------------------------------------------------ Init
NewClient == [username |-> "none", password |-> NoToken, tls |-> FALSE,
              callbacks |-> {}, connects |-> 0, loopRunning |-> FALSE,
              loopStops |-> 0]

Init ==
    /\ args \in [project_id : ProjectIds, device_id : DeviceIds,
                 num_messages : NumMessages, message_type : MessageTypes]
    /\ pc = "username_pw_set"
    /\ clock = 0
    /\ token = NoToken
    /\ client = NewClient
    /\ link = "none"
    /\ status = NoStatus
    /\ rng = [seed |-> 0, n |-> 0]
    /\ env = NoEnv
    /\ trend = 0
    /\ i = 0
    /\ topic = <<>>
    /\ published = <<>>
    /\ unacked = {}
    /\ result = "running"

Terminal == {"done", "crashed"}

\* an exception nobody catches ends main(); the network thread is a daemon
Raise(exc) == pc' = "crashed" /\ result' = exc

\* ------------------------------------------------------------ main thread
\* UsernamePwSet with the key failure swallowed instead of left to propagate
UsernamePwSet_KeyErrorIgnored ==
    /\ pc = "username_pw_set"
    /\ \E gap \in ReadGaps, key \in KeyOutcomes :
         /\ clock + gap <= MaxClock
         /\ clock' = clock + gap
         /\ IF key = "ok"
            THEN /\ token' = create_jwt(args.project_id, clock, clock + gap)
                 /\ client' = [client EXCEPT !.username = "unused",
                                             !.password = token']
                 /\ UNCHANGED result
            ELSE /\ result' = (IF key = "unreadable" THEN "IOError" ELSE "ValueError")
                 /\ UNCHANGED <<token, client>>
         /\ pc' = "tls_set"
    /\ UNCHANGED <<args, link, status, rng, env, trend, i, topic, published, unacked>>

\* lines 134-137: create_jwt, then username_pw_set
UsernamePwSet ==
    /\ pc = "username_pw_set"
    /\ \E gap \in ReadGaps, key \in KeyOutcomes :
         /\ clock + gap <= MaxClock
         /\ clock' = clock + gap
         /\ IF key = "ok"
            THEN /\ token' = create_jwt(args.project_id, clock, clock + gap)
                 /\ client' = [client EXCEPT !.username = "unused",
                                             !.password = token']
                 /\ pc' = "tls_set"
                 /\ UNCHANGED result
            ELSE /\ Raise(IF key = "unreadable" THEN "IOError" ELSE "ValueError")
                 /\ UNCHANGED <<token, client>>
    /\ UNCHANGED <<args, link, status, rng, env, trend, i, topic, published, unacked>>
\* TlsSet that leaves the client without TLS
TlsSet_Skipped ==
    /\ pc = "tls_set"
    /\ pc' = "callbacks"
    /\ UNCHANGED <<args, clock, token, client, link, status, rng, env, trend, i,
                   topic, published, unacked, result>>

\* line 140
TlsSet ==
    /\ pc = "tls_set"
    /\ client' = [client EXCEPT !.tls = TRUE]
    /\ pc' = "callbacks"
    /\ UNCHANGED <<args, clock, token, link, status, rng, env, trend, i, topic,
                   published, unacked, result>>

\* lines 145-147
RegisterCallbacks ==
    /\ pc = "callbacks"
    /\ client' = [client EXCEPT
                    !.callbacks = {"on_connect", "on_publish", "on_disconnect"}]
    /\ pc' = "connect"
    /\ UNCHANGED <<args, clock, token, link, status, rng, env, trend, i, topic,
                   published, unacked, result>>

\* line 150: connect() opens the socket and sends CONNECT; it raises when the
\* broker cannot be reached and returns without waiting for the CONNACK
Connect ==
    /\ pc = "connect"
    /\ \E reachable \in BOOLEAN :
         IF reachable
         THEN /\ client' = [client EXCEPT !.connects = client.connects + 1]
              /\ link' = "sent"
              /\ pc' = "loop_start"
              /\ UNCHANGED result
         ELSE /\ client' = [client EXCEPT !.connects = client.connects + 1]
              /\ Raise("OSError")
              /\ UNCHANGED link
    /\ UNCHANGED <<args, clock, token, status, rng, env, trend, i, topic,
                   published, unacked>>

\* line 153
LoopStart ==
    /\ pc = "loop_start"
    /\ client' = [client EXCEPT !.loopRunning = TRUE]
    /\ pc' = "init_state"
    /\ UNCHANGED <<args, clock, token, link, status, rng, env, trend, i, topic,
                   published, unacked, result>>
\* InitState with the generator seeded from the clock (random.seed() without
\* the device id) instead of from the device id
InitState_SeededFromClock ==
    /\ pc = "init_state"
    /\ topic' = MqttTopic(args.device_id, args.message_type)
    /\ LET seeded == [seed |-> 1 + (clock % 2), n |-> 0]
       IN  /\ env' = InitialEnv(seeded)
           /\ trend' = InitialTrend(seeded)
           /\ rng' = Drawn(seeded, Len(Quantities) + 1)
    /\ pc' = "loop_head"
    /\ UNCHANGED <<args, clock, token, client, link, status, i, published,
                   unacked, result>>

\* lines 156-181
InitState ==
    /\ pc = "init_state"
    /\ topic' = MqttTopic(args.device_id, args.message_type)
    /\ LET seeded == [seed |-> SeedOf(args.device_id), n |-> 0]
       IN  /\ env' = InitialEnv(seeded)
           /\ trend' = InitialTrend(seeded)
           /\ rng' = Drawn(seeded, Len(Quantities) + 1)
    /\ pc' = "loop_head"
    /\ UNCHANGED <<args, clock, token, client, link, status, i, published,
                   unacked, result>>
\* LoopHead that enters the body whatever num_messages is (while True)
LoopHead_NoBound ==
    /\ pc = "loop_head"
    /\ i' = i + 1
    /\ pc' = "advance"
    /\ UNCHANGED <<args, clock, token, client, link, status, rng, env, trend,
                   topic, published, unacked, result>>

\* LoopHead counting from 0: for i in range(0, args.num_messages + 1)
LoopHead_FromZero ==
    /\ pc = "loop_head"
    /\ IF i <= args.num_messages
       THEN i' = i + 1 /\ pc' = "advance"
       ELSE i' = i /\ pc' = "loop_stop"
    /\ UNCHANGED <<args, clock, token, client, link, status, rng, env, trend,
                   topic, published, unacked, result>>

\* line 184: for i in range(1, args.num_messages + 1)
LoopHead ==
    /\ pc = "loop_head"
    /\ IF i < args.num_messages
       THEN i' = i + 1 /\ pc' = "advance"
       ELSE i' = i /\ pc' = "loop_stop"
    /\ UNCHANGED <<args, clock, token, client, link, status, rng, env, trend,
                   topic, published, unacked, result>>

\* lines 186-197
AdvanceState ==
    /\ pc = "advance"
    /\ env' = Advance(env, trend, rng)
    /\ rng' = Drawn(rng, DrawsPerAdvance)
    /\ pc' = "publish"
    /\ UNCHANGED <<args, clock, token, client, link, status, trend, i, topic,
                   published, unacked, result>>

\* lines 199-227: index, payload, publish, sleep
PublishStep ==
    /\ pc = "publish"
    /\ LET g == GScore(env)
       IN  IF g.error # "none"
           THEN /\ Raise(g.error)
                /\ UNCHANGED <<clock, published, unacked>>
           ELSE /\ published' = Append(published,
                       [topic |-> topic, qos |-> Qos, mid |-> Len(published) + 1,
                        tick |-> i, link |-> link,
                        payload |-> Payload(clock, args.device_id, env, g.value)])
                /\ unacked' = unacked \cup {Len(published) + 1}
                /\ clock' = clock + SleepSeconds(args.message_type)
                /\ pc' = "loop_head"
                /\ UNCHANGED result
    /\ UNCHANGED <<args, token, client, link, status, rng, env, trend, i, topic>>

\* lines 230-231
LoopStop ==
    /\ pc = "loop_stop"
    /\ client' = [client EXCEPT !.loopRunning = FALSE,
                                !.loopStops = client.loopStops + 1]
    /\ pc' = "done"
    /\ result' = "Finished"
    /\ UNCHANGED <<args, clock, token, link, status, rng, env, trend, i, topic,
                   published, unacked>>

\* SIGINT: main() installs no handler and has no try/finally, so the
\* KeyboardInterrupt unwinds it from wherever it is
Interrupt ==
    /\ pc \notin Terminal
    /\ Raise("KeyboardInterrupt")
    /\ UNCHANGED <<args, clock, token, client, link, status, rng, env, trend, i,
                   topic, published, unacked>>

\* --------------------------------------------------------- network thread
\* The thread started by loop_start: it reads what the broker sends and
\* calls the registered callback; after a lost connection it reconnects.
NetworkLoop ==
    /\ client.loopRunning
    /\ pc \notin Terminal
    /\ \/ /\ link = "sent"
          /\ \E rc \in ConnackCodes :
               /\ link' = IF rc = 0 THEN "accepted" ELSE "refused"
               /\ status' = on_connect(status, rc)
          /\ UNCHANGED unacked
       \/ /\ link \in {"accepted", "refused"}
          /\ link' = "lost"
          /\ status' = on_disconnect(status, IF link = "refused" THEN 5 ELSE 1)
          /\ UNCHANGED unacked
       \/ /\ link = "lost"
          /\ link' = "sent"
          /\ UNCHANGED <<status, unacked>>
       \/ /\ link = "accepted"
          /\ \E mid \in unacked :
               /\ unacked' = unacked \ {mid}
               /\ status' = on_publish(status, mid)
          /\ UNCHANGED link
    /\ UNCHANGED <<mainVars, clock>>

\* ------------------------------------------------------------------ clock
Elapse ==
    /\ pc \notin Terminal
    /\ \E d \in ClockSteps :
         /\ clock + d <= MaxClock
         /\ clock' = clock + d
    /\ UNCHANGED <<mainVars, link, status, unacked>>
MainStep ==
    \/ UsernamePwSet \/ TlsSet \/ RegisterCallbacks \/ Connect \/ LoopStart
    \/ InitState \/ LoopHead \/ AdvanceState \/ PublishStep \/ LoopStop

Next == MainStep \/ Interrupt \/ NetworkLoop \/ Elapse

Spec == Init /\ [][Next]_vars

\* ================================================================ claims
InLoop == pc \in {"loop_head", "advance", "publish"}

\* main() ended by itself: the loop ran out, or a statement of main() raised
EndedByItself == pc \in Terminal /\ result # "KeyboardInterrupt"

\* C1: a session with num_messages = N >= 1 that connected successfully and
\* whose token is still valid has made exactly N publish calls when it ends.
C1_ExactlyNPublishes ==
    (/\ EndedByItself
     /\ args.num_messages >= 1
     /\ link = "accepted"
     /\ status.connect = 0
     /\ clock < token.exp)
    => Len(published) = args.num_messages

\* C2: no publish call carries a time at or after the token's expiry, and a
\* tick entered with an expired token ends the session with
\* CredentialExpiredError instead of going on to its publish.
C2_ExpiryCheckedBeforePublish ==
    [][/\ \A k \in 1..Len(published') :
             published'[k].payload.timestamp < token.exp
       /\ (/\ pc = "publish"
           /\ pc' # "publish"
           /\ clock >= token.exp
           /\ result' # "KeyboardInterrupt")
          => result' = "CredentialExpiredError"]_vars

\* C3: when a session that had connected ends, by running out of ticks or by
\* an error raised in main(), teardown of the transport has been requested
\* exactly once.
C3_TeardownExactlyOnce ==
    (EndedByItself /\ link # "none") => client.loopStops = 1

\* C4: the main thread is inside the publish loop only after on_connect has
\* reported success, and every publish call was made on an accepted connection.
C4_PublishingOnlyAfterConnectSuccess ==
    /\ pc \in {"advance", "publish"} => status.connect = 0
    /\ \A k \in 1..Len(published) : published[k].link = "accepted"

\* C5: when the connection fails (connect() raises, or the broker refuses the
\* credential in its CONNACK) the session ends with the connect error and
\* without any publish.
C5_ConnectFailureIsFatal ==
    (EndedByItself /\ (result = "OSError" \/ status.connect = 5))
    => (result = "OSError" /\ published = <<>>)

\* C7: a callback leaves the simulation state, the loop counter and the
\* records untouched, and a tick that reaches the index computation goes on
\* to its publish, whatever the callbacks have reported.
C7_CallbacksDoNotGateOrMutate ==
    [][/\ status' # status => UNCHANGED <<env, trend, rng, i, published, pc>>
       /\ (pc = "publish" /\ pc' # "publish" /\ result' # "KeyboardInterrupt")
          => Len(published') = Len(published) + 1]_vars

\* C8: a stop signal that arrives while the main thread is in the publish
\* loop takes it to the teardown at the end of main(), with no further
\* advance or publish.
C8_StopSignalLeadsToTeardown ==
    [][(InLoop /\ result' = "KeyboardInterrupt")
       => (pc' = "loop_stop" /\ UNCHANGED <<env, published>>)]_vars

\* C10: every issued token expires exactly Validity after its issue time and
\* carries the project id as audience.
C10_ExpiryIsIssuePlusValidity ==
    token # NoToken
    => (token.exp = token.iat + Validity /\ token.aud = args.project_id)

\* Facts about the reachable states used when settling C6 and C9: the index
\* computation is only ever reached with a positive denominator, and no
\* publish call is ever made.
DenominatorPositiveAtIndex == pc = "publish" => Denominator(env) > 0
NothingPublished == published = <<>> /\ unacked = {}

\* C11: when create_jwt fails (key file unreadable, or key not usable with the
\* algorithm) the session does not proceed: connect is never requested, the
\* network loop is never started and nothing is published.
C11_NoSessionWithoutCredential ==
    (result \in {"IOError", "ValueError"} \/ token = NoToken)
    => /\ client.connects = 0
       /\ ~client.loopRunning
       /\ link = "none"
       /\ published = <<>>

C11_Witness ==
    /\ pc = "crashed"
    /\ result \in {"IOError", "ValueError"}
    /\ token = NoToken
    /\ client.connects = 0

\* C12: temperature_trend is +1 or -1 from before the first tick on, no step
\* of the main thread, of the network thread or of the clock changes it once
\* it is chosen, and in every advance both temperatures step by that sign
\* times their normal draw.
C12_TrendFixedForSession ==
    [][/\ trend # 0 => trend' = trend
       /\ i' >= 1 => trend' \in {1, 0 - 1}
       /\ (pc = "advance" /\ pc' = "publish")
          => /\ env'["Temp In"] - env["Temp In"]
                  = trend * normalvariate(rng, 10, 5)
             /\ env'["Temp Out"] - env["Temp Out"]
                  = trend * normalvariate(Drawn(rng, 1), 10, 5)]_vars

C12_Witness ==
    /\ pc = "publish"
    /\ i = 1
    /\ trend = 0 - 1
    /\ status.connect # 0 - 1
    /\ env["Temp Out"] # InitialEnv([seed |-> SeedOf(args.device_id), n |-> 0])["Temp Out"]

\* C13: the simulation is a function of the device id and of the number of
\* draws alone.  Whatever the message type, the clock, the callbacks and the
\* broker did, the generator, the trend and the quantities are those obtained
\* from the device id's seed by the initial draws and as many advances as
\* the draws consumed account for; so two sessions with the same device id
\* agree on the initial state, the trend and the state after every tick.
Seeded(device_id) == [seed |-> SeedOf(device_id), n |-> 0]

AdvancesDrawn == (rng.n - (Len(Quantities) + 1)) \div DrawsPerAdvance

RECURSIVE EnvAfter(_, _)
EnvAfter(device_id, k) ==
    IF k = 0
    THEN InitialEnv(Seeded(device_id))
    ELSE Advance(EnvAfter(device_id, k - 1),
                 InitialTrend(Seeded(device_id)),
                 Drawn(Seeded(device_id),
                       Len(Quantities) + 1 + (k - 1) * DrawsPerAdvance))

C13_TrajectoryDeterminedByDeviceId ==
    IF rng.n = 0
    THEN env = NoEnv /\ trend = 0 /\ i = 0
    ELSE /\ rng.seed = SeedOf(args.device_id)
         /\ rng.n = Len(Quantities) + 1 + AdvancesDrawn * DrawsPerAdvance
         /\ trend = InitialTrend(Seeded(args.device_id))
         /\ env = EnvAfter(args.device_id, AdvancesDrawn)
         /\ AdvancesDrawn = (IF pc = "advance" THEN i - 1 ELSE i)
              \/ (pc = "crashed" /\ AdvancesDrawn = i - 1)

C13_Witness ==
    /\ pc = "publish"
    /\ AdvancesDrawn = 1
    /\ args.message_type = "state"
    /\ status.connect = 5
    /\ clock > 0
    /\ env # InitialEnv(Seeded(args.device_id))
    /\ InitialEnv(Seeded("dev-1")) # InitialEnv(Seeded("dev-2"))

\* Fact about the reachable states used when settling C14: once the topic is
\* derived it is the device's events or state topic and stays what it is.
TopicFixedBeforeLoop ==
    [][/\ topic' # <<>> => topic' = MqttTopic(args.device_id, args.message_type)
       /\ InLoop' => topic' # <<>>
       /\ topic # <<>> => topic' = topic]_vars

\* C15: for every state with a non-zero denominator the index computation
\* yields a value, never an error, and the value is
\*   ((tempIn - tempOut)^3 / 500 + sqrt(sqrt(ch4 + co2 + n2o + cfc))
\*      - 10 * (soilMoisture + solarIrradiance) + uvIndex)
\*   / (pressure + (humidityIn - humidityOut))
\* with ^3 the arithmetic cube (here in whole units, rounded down).
Units(x) == x \div Scale

ISqrt(n) == CHOOSE r \in 0..n : r * r <= n /\ (r + 1) * (r + 1) > n

IntendedIndex(s) ==
    LET d   == Units(s["Temp In"] - s["Temp Out"])
        gas == Units(s["Methan ppb"] + s["Carbon Dioxide ppb"]
                     + s["Nitrous Oxide ppb"] + s["CFC ppb"])
        num == (d * d * d) \div 500 + ISqrt(ISqrt(gas))
                 - 10 * Units(s["Soil Moisture"] + s["Solar Irradiance"])
                 + Units(s["UV Index"])
    IN  (num * Scale * Scale) \div Denominator(s)

C15_IndexIsArithmeticCubeFormula ==
    (pc = "publish" /\ Denominator(env) # 0)
    => /\ GScore(env).error = "none"
       /\ GScore(env).value = IntendedIndex(env)

\* C17: a tick is one advance, then one index computation on the advanced
\* state, then one publish of that state, then one sleep of the tick
\* interval; so the k-th publish carries the state after k advances.
C17_TickIsAdvanceIndexPublishSleep ==
    [][(pc = "publish" /\ pc' # "publish" /\ result' # "KeyboardInterrupt")
       => /\ pc' = "loop_head"
          /\ published' = Append(published, published'[Len(published')])
          /\ published'[Len(published')].tick = i
          /\ published'[Len(published')].payload.sensors = env
          /\ env = EnvAfter(args.device_id, i)
          /\ clock' = clock + SleepSeconds(args.message_type)]_vars

\* C18: with the main thread scheduled whenever it can take a step, every
\* session ends; the session state only moves forward through Disconnected,
\* Connecting, Connected, Publishing, Disconnecting, Disconnected; and the
\* loop counter never exceeds num_messages.
LiveSpec == Spec /\ WF_vars(MainStep)

SessionRank(p) ==
    CASE p \in {"username_pw_set", "tls_set", "callbacks"} -> 0  \* Disconnected
      [] p = "connect"                                     -> 1  \* Connecting
      [] p \in {"loop_start", "init_state"}                -> 2  \* Connected
      [] p \in {"loop_head", "advance", "publish"}         -> 3  \* Publishing
      [] p = "loop_stop"                                   -> 4  \* Disconnecting
      [] p \in Terminal                                    -> 5  \* Disconnected

SetupDone ==
    /\ token # NoToken
    /\ client.username = "unused"
    /\ client.password = token
    /\ client.tls
    /\ client.callbacks = {"on_connect", "on_publish", "on_disconnect"}

C19_SetupOrdered ==
    [][/\ client'.connects >= 1 => SetupDone'
       /\ client'.connects <= 1
       /\ client'.loopRunning => (client'.connects = 1 /\ link' # "none")
       /\ (InLoop' \/ published' # <<>>) => client'.loopRunning
       /\ token # NoToken => (token' = token /\ client'.password = token)]_vars

C19_Witness ==
    /\ pc = "publish"
    /\ SetupDone
    /\ client.connects = 1
    /\ client.loopRunning
    /\ clock >= token.exp

\* C20: with num_messages zero or negative the loop body never runs: no
\* advance, no index computation, no publish; the initial state and the trend
\* are drawn all the same, the network loop is stopped and main() finishes
\* normally.
C20_NoTickForNonPositiveCount ==
    args.num_messages <= 0
    => /\ pc \notin {"advance", "publish"}
       /\ i = 0
       /\ published = <<>>
       /\ result \in {"running", "Finished", "KeyboardInterrupt", "IOError",
                      "ValueError", "OSError"}
       /\ rng.n \in {0, Len(Quantities) + 1}
       /\ pc \in {"loop_stop", "done"}
          => /\ env = InitialEnv(Seeded(args.device_id))
             /\ trend \in {1, 0 - 1}
       /\ pc = "done"
          => /\ result = "Finished"
             /\ client.loopStops = 1
             /\ ~client.loopRunning

C20_Witness ==
    /\ args.num_messages < 0
    /\ pc = "done"
    /\ result = "Finished"
    /\ env = InitialEnv(Seeded(args.device_id))
    /\ client.loopStops = 1

====
